---- MODULE Spec2Model ----
(***************************************************************************)
(* Model of trading_api_wrappers/base.py: the Server descriptor and the    *)
(* Client dispatcher (throttle, timestamp, encode, sign, send, decode).    *)
(*                                                                         *)
(* Time: `clock' counts ticks of the wall clock, TicksPerMs ticks to the   *)
(* millisecond, so that Client.milliseconds() truncates as int(time.time() *)
(* * 1E3) does.  The clock never runs backwards and time.sleep(s) returns  *)
(* no earlier than s seconds after it was called.                          *)
(*                                                                         *)
(* Python values are tagged records: None, int, str, list, dict.  A dict   *)
(* is a sequence of <<key, value>> pairs in insertion order, keys unique.  *)
(***************************************************************************)
EXTENDS Integers, Sequences, FiniteSets, TLC

\* ------------------------------------------------------------------ bounds
MaxRateLimit == 2   \* rate_limit ranges over 1..MaxRateLimit milliseconds
MaxCalls == 2       \* requests issued on the client
MaxTicks == 4       \* clock ticks explored after construction
TicksPerMs == 2     \* clock resolution: ticks per millisecond

Threads == {"t1", "t2"}

\* ----------------------------------------------------------- Python values
None == [t |-> "none"]
PyInt(n) == [t |-> "int", n |-> n]
PyStr(s) == [t |-> "str", s |-> s]
PyBool(b) == [t |-> "bool", b |-> b]
PyList(xs) == [t |-> "list", xs |-> xs]
PyDict(items) == [t |-> "dict", items |-> items]

\* bool(x) of Python
Truthy(x) ==
  CASE x.t = "none" -> FALSE
    [] x.t = "bool" -> x.b
    [] x.t = "int" -> x.n # 0
    [] x.t = "str" -> x.s # ""
    [] x.t = "list" -> x.xs # <<>>
    [] x.t = "dict" -> x.items # <<>>

Keys(d) == {d.items[i][1] : i \in 1..Len(d.items)}

\* dict.get(key, default)
DictGet(d, key, default) ==
  IF key \in Keys(d)
  THEN LET i == CHOOSE j \in 1..Len(d.items) : d.items[j][1] = key
       IN d.items[i][2]
  ELSE default

\* ------------------------------------------------------------------ Server
\* a Server that appends every version that is not None, the empty one too
Server_AnyVersion(protocol, host, version) ==
  LET url0 == protocol \o "://" \o host
      url == IF version # None THEN url0 \o "/" \o version.s ELSE url0
  IN [PROTOCOL |-> protocol, HOST |-> host, VERSION |-> version, URL |-> url]

\* Server.__init__: version is None or a string
Server(protocol, host, version) ==
  LET url0 == protocol \o "://" \o host
      url == IF Truthy(version) THEN url0 \o "/" \o version.s ELSE url0
  IN [PROTOCOL |-> protocol, HOST |-> host, VERSION |-> version, URL |-> url]

\* --------------------------------------------------------------- variables
VARIABLES
  SERVER,                  \* Client.SERVER, the Server built at construction
  error_key,               \* class attribute Client.error_key
  enable_rate_limit,       \* class attribute Client.enable_rate_limit
  rate_limit,              \* class attribute Client.rate_limit (ms)
  last_request_timestamp,  \* Client.last_request_timestamp (ms)
  clock,                   \* wall clock, in ticks
  pc,                      \* each caller's position in _request
  now,                     \* throttle's local `now' (ms)
  elapsed,                 \* throttle's local `elapsed' (ms)
  delay,                   \* throttle's local `delay' (ms), 0 when it does not sleep
  wake,                    \* tick at which the caller's time.sleep may return
  stamp,                   \* the timestamp this caller's request recorded
  trace,                   \* steps this caller's request has taken, in order
  calls,                   \* requests issued on the client so far
  raced,                   \* another caller recorded a timestamp between this caller's
                           \* clock reading (line 120) and its read of the field (line 121)
  lastFailed,              \* the most recently finished request raised
  io                       \* what the step just taken put on or took off the wire

config == <<SERVER, error_key, enable_rate_limit, rate_limit>>
locals == <<now, elapsed, delay, wake, raced>>
vars == <<SERVER, error_key, enable_rate_limit, rate_limit, last_request_timestamp,
          clock, pc, now, elapsed, delay, wake, stamp, trace, raced, calls, lastFailed,
          io>>

\* --------------------------------------------------------------- the clock
\* Client.milliseconds(): int(time.time() * 1E3)
milliseconds == clock \div TicksPerMs

\* the clock at construction: later than any rate limit after the epoch
EpochMs == MaxRateLimit + 1
StartTick == EpochMs * TicksPerMs
EndTick == StartTick + MaxTicks

\* -------------------------------------------------------------- the inputs
Protocols == {"https"}
Hosts == {"api.example.com"}
Versions == {None, PyStr(""), PyStr("v2")}
ErrorKeys == {"", "error"}
Endpoints == {"ticker"}

ParamsArgs == {None, PyDict(<< <<"a", PyInt(1)>> >>)}
DataArgs ==
  { None,
    PyDict(<<>>),
    PyDict(<< <<"k", None>> >>),
    PyDict(<< <<"j", None>>, <<"k", PyInt(1)>> >>) }

\* the verb methods: get passes params, the others pass data
VerbCalls ==
  [method : {"get"}, endpoint : Endpoints, params : ParamsArgs, data : {None}]
  \cup
  [method : {"post"}, endpoint : Endpoints, params : {None}, data : DataArgs]

\* what a subclass's sign may return: a dict holding any of headers, params, data
SignHeaders == PyDict(<< <<"X-Test", PyStr("1")>> >>)
SignParams == PyDict(<< <<"sig", PyInt(7)>> >>)
SignData == PyStr("signed")
SignReturns ==
  { PyDict(<< <<"headers", SignHeaders>> >>),
    PyDict(<< <<"params", SignParams>> >>),
    PyDict(<< <<"data", SignData>> >>),
    PyDict(<< <<"headers", SignHeaders>>, <<"params", SignParams>>, <<"data", SignData>> >>) }

\* a response body: text that does not parse as JSON, or the text of a JSON value
Garbage == [t |-> "garbage"]
JsonText(v) == [t |-> "json", v |-> v]
JsonValues ==
  { PyDict(<< <<"error", PyBool(TRUE)>> >>),
    PyDict(<< <<"error", PyInt(0)>> >>),
    PyDict(<< <<"result", PyInt(42)>> >>),
    PyDict(<< <<"", PyInt(1)>> >>),
    PyList(<< PyDict(<< <<"error", PyBool(TRUE)>> >>) >>),
    PyInt(42) }
Bodies == {Garbage} \cup {JsonText(v) : v \in JsonValues}
Statuses == {200, 404, 500}
Responses == [status_code : Statuses, body : Bodies]

\* session.request either returns a response or raises (connection, timeout, retries)
TransportError == [t |-> "transport_error"]
Transports == Responses \cup {TransportError}

\* ------------------------------------------------------- encoding the body
\* common.clean_parameters: the mapping without its None-valued entries
clean_parameters(parameters) ==
  PyDict(SelectSeq(parameters.items, LAMBDA kv : kv[2] # None))

\* json.dumps of a scalar
DumpScalar(v) ==
  CASE v.t = "none" -> "null"
    [] v.t = "bool" -> IF v.b THEN "true" ELSE "false"
    [] v.t = "int" -> ToString(v.n)
    [] v.t = "str" -> "\"" \o v.s \o "\""

RECURSIVE DumpItems(_)
DumpItems(items) ==
  IF items = <<>> THEN ""
  ELSE LET kv == Head(items)
           one == "\"" \o kv[1] \o "\": " \o DumpScalar(kv[2])
       IN IF Tail(items) = <<>> THEN one ELSE one \o ", " \o DumpItems(Tail(items))

\* json.dumps of a flat dict, default separators
json_dumps(d) == "{" \o DumpItems(d.items) \o "}"

\* an encoder that tests for emptiness before the None-valued entries are removed
_encode_data_TestFirst(data) ==
  IF Truthy(data) THEN PyStr(json_dumps(clean_parameters(data))) ELSE PyDict(<<>>)

\* Client._encode_data
_encode_data(data) ==
  LET cleaned == clean_parameters(IF Truthy(data) THEN data ELSE PyDict(<<>>))
  IN IF Truthy(cleaned) THEN PyStr(json_dumps(cleaned)) ELSE cleaned

\* --------------------------------------------------------------- the URL
\* Client.url_for
url_for(server, endpoint) == server.URL \o "/" \o endpoint

RECURSIVE Find(_, _, _)
\* the first index >= from at which one of the one-character strings chars occurs in s,
\* Len(s) + 1 when none does
Find(s, chars, from) ==
  IF from > Len(s) THEN Len(s) + 1
  ELSE IF SubSeq(s, from, from) \in chars THEN from
  ELSE Find(s, chars, from + 1)

RECURSIVE FindScheme(_, _)
\* the index of "://" in s, 0 when it does not occur
FindScheme(s, from) ==
  IF from + 2 > Len(s) THEN 0
  ELSE IF SubSeq(s, from, from + 2) = "://" THEN from
  ELSE FindScheme(s, from + 1)

\* urlparse(url).path for scheme://netloc/path?query#fragment
UrlPath(url) ==
  LET sch == FindScheme(url, 1)
      netloc == IF sch = 0 THEN 1 ELSE sch + 3
      start == Find(url, {"/", "?", "#"}, netloc)
      stop == Find(url, {"?", "#"}, start)
  IN IF sch = 0 THEN SubSeq(url, 1, Find(url, {"?", "#"}, 1) - 1)
     ELSE SubSeq(url, start, stop - 1)

\* Client.url_path_for
url_path_for(server, endpoint) ==
  LET url == url_for(server, endpoint)
  IN [url |-> url, path |-> UrlPath(url)]

\* ------------------------------------------------------ building the request
\* Client.sign, the default: no signing
sign(method, path, params, data) == PyDict(<<>>)

\* override's entries laid over default's, when both are mappings
Merged(default, override) ==
  IF default.t = "dict" /\ override.t = "dict"
  THEN PyDict(SelectSeq(default.items, LAMBDA kv : kv[1] \notin Keys(override))
              \o override.items)
  ELSE override

\* session arguments that merge sign's mappings into the caller's, entry by entry
SessionArgs_Merging(method, url, params, data, request) ==
  [ method |-> method,
    url |-> url,
    headers |-> DictGet(request, "headers", None),
    params |-> Merged(params, DictGet(request, "params", params)),
    data |-> DictGet(request, "data", data) ]

\* the arguments _request hands to session.request, given what sign returned
SessionArgs(method, url, params, data, request) ==
  [ method |-> method,
    url |-> url,
    headers |-> DictGet(request, "headers", None),
    params |-> DictGet(request, "params", params),
    data |-> DictGet(request, "data", data) ]

\* _request from url_path_for to session.request: the call's arguments, what sign
\* was given and returned, and what was sent
Prepare(server, call, signed) ==
  LET up == url_path_for(server, call.endpoint)
      data == _encode_data(call.data)
      request == IF signed = None THEN sign(call.method, up.path, call.params, data)
                 ELSE signed
  IN [ call |-> call,
       sign_args |-> [method |-> call.method, path |-> up.path,
                      params |-> call.params, data |-> data],
       sign_ret |-> request,
       sent |-> SessionArgs(call.method, up.url, call.params, data, request) ]

\* ------------------------------------------------------ handling the response
\* a status check that lets client errors through
IsServerError(response) == response.status_code >= 500

\* response.raise_for_status() raises HTTPError
IsHTTPError(response) == response.status_code >= 400 /\ response.status_code < 600

Raise(kind, response, decoded) ==
  [kind |-> kind, value |-> None, carried |-> response, decoded |-> decoded]
Return(value) ==
  [kind |-> "return", value |-> value, carried |-> None, decoded |-> TRUE]

\* a decoder that takes the error key's presence for an error
_decode_data_KeyPresent(response, errkey) ==
  IF response.body = Garbage THEN Raise("DecodeError", None, TRUE)
  ELSE LET json_resp == response.body.v
       IN IF json_resp.t = "dict" /\ errkey \in Keys(json_resp)
          THEN Raise("InvalidResponse", response, TRUE)
          ELSE Return(json_resp)

\* a decoder that swallows the parse failure
_decode_data_Lenient(response, errkey) ==
  IF response.body = Garbage THEN Return(None)
  ELSE LET json_resp == response.body.v
       IN IF json_resp.t = "dict" /\ Truthy(DictGet(json_resp, errkey, PyBool(FALSE)))
          THEN Raise("InvalidResponse", response, TRUE)
          ELSE Return(json_resp)

\* Client._decode_data
_decode_data(response, errkey) ==
  IF response.body = Garbage THEN Raise("DecodeError", None, TRUE)
  ELSE LET json_resp == response.body.v
       IN IF json_resp.t = "dict" /\ Truthy(DictGet(json_resp, errkey, PyBool(FALSE)))
          THEN Raise("InvalidResponse", response, TRUE)
          ELSE Return(json_resp)

\* _request from session.request's result to its own
Finish(transport, errkey) ==
  IF transport = TransportError THEN Raise("TransportError", None, FALSE)
  ELSE IF IsHTTPError(transport) THEN Raise("InvalidResponse", transport, FALSE)
  ELSE _decode_data(transport, errkey)

\* ------------------------------------------------------------ construction
NoEvent == [type |-> "none"]

\* the Servers a client may be built on
Servers == {Server(p, h, v) : p \in Protocols, h \in Hosts, v \in Versions}

\* every request _request can build on a server: each verb call with each sign result
Requests ==
  [server \in Servers |->
     {Prepare(server, call, signed) : call \in VerbCalls, signed \in SignReturns \cup {None}}]

\* every way _request can end under an error_key: each transport result with its outcome
Results ==
  [errkey \in ErrorKeys |->
     {[transport |-> tr, outcome |-> Finish(tr, errkey)] : tr \in Transports}]

\* Server.__init__ and Client.__init__, with the subclass's class attributes
Construct(protocol, host, version, errkey, enabled, limit) ==
  /\ SERVER = Server(protocol, host, version)
  /\ error_key = errkey
  /\ enable_rate_limit = enabled
  /\ rate_limit = limit
  /\ last_request_timestamp = 0
  /\ clock = StartTick
  /\ pc = [t \in Threads |-> "idle"]
  /\ now = [t \in Threads |-> 0]
  /\ elapsed = [t \in Threads |-> 0]
  /\ delay = [t \in Threads |-> 0]
  /\ wake = [t \in Threads |-> 0]
  /\ stamp = [t \in Threads |-> 0]
  /\ trace = [t \in Threads |-> <<>>]
  /\ raced = [t \in Threads |-> FALSE]
  /\ calls = 0
  /\ lastFailed = FALSE
  /\ io = NoEvent

\* one client shared by concurrent callers
Init ==
  \E enabled \in BOOLEAN, limit \in 1..MaxRateLimit :
    Construct("https", "api.example.com", PyStr("v2"), "error", enabled, limit)

\* every configuration, for callers that take turns
InitSeq ==
  \E protocol \in Protocols, host \in Hosts, version \in Versions,
     errkey \in ErrorKeys, enabled \in BOOLEAN, limit \in 1..MaxRateLimit :
    Construct(protocol, host, version, errkey, enabled, limit)

\* ---------------------------------------------------------------- actions
\* time passes
Tick ==
  /\ clock < EndTick
  /\ clock' = clock + 1
  /\ io' = NoEvent
  /\ UNCHANGED <<config, last_request_timestamp, pc, locals, stamp, trace, calls,
                 lastFailed>>

\* a verb method enters _request (lines 71-72); with rate limiting on, throttle
\* begins: now = float(self.milliseconds()) (line 120)
Enter(t) ==
  /\ pc[t] = "idle"
  /\ calls < MaxCalls
  /\ calls' = calls + 1
  /\ pc' = [pc EXCEPT ![t] = IF enable_rate_limit THEN "throttle" ELSE "stamp"]
  /\ now' = [now EXCEPT ![t] = IF enable_rate_limit THEN milliseconds ELSE 0]
  /\ io' = NoEvent
  /\ UNCHANGED <<config, last_request_timestamp, clock, elapsed, delay, wake, raced,
                 stamp, trace, lastFailed>>

\* callers sharing the client freely
Call(t) == Enter(t)

\* callers taking turns: each call returns or raises before the next begins
CallSeq(t) == (\A u \in Threads : pc[u] = "idle") /\ Enter(t)

\* a delay one millisecond short
ThrottleDelay_Short(e, limit) == IF e < limit THEN limit - e - 1 ELSE 0

\* a delay of the whole rate limit, whatever has elapsed
ThrottleDelay_Whole(e, limit) == IF e < limit THEN limit ELSE 0

\* throttle's delay for an elapsed time (line 123), 0 when it does not sleep (line 122)
ThrottleDelay(e, limit) == IF e < limit THEN limit - e ELSE 0

\* a throttle that hands time.sleep the delay in the wrong unit, and so sleeps too little
Throttle_WrongUnit(t) ==
  LET e == now[t] - last_request_timestamp
      d == ThrottleDelay(e, rate_limit)
  IN /\ pc[t] = "throttle"
     /\ elapsed' = [elapsed EXCEPT ![t] = e]
     /\ delay' = [delay EXCEPT ![t] = d]
     /\ wake' = [wake EXCEPT ![t] = IF d > 0 THEN clock + 1 ELSE 0]
     /\ pc' = [pc EXCEPT ![t] = IF d > 0 THEN "sleep" ELSE "stamp"]
     /\ trace' = [trace EXCEPT ![t] = IF d > 0 THEN @ ELSE Append(@, "throttle")]
     /\ io' = NoEvent
     /\ UNCHANGED <<config, last_request_timestamp, clock, now, raced, stamp, calls,
                    lastFailed>>

\* throttle, lines 121-124: read last_request_timestamp, sleep when too early
Throttle(t) ==
  LET e == now[t] - last_request_timestamp
      d == ThrottleDelay(e, rate_limit)
  IN /\ pc[t] = "throttle"
     /\ elapsed' = [elapsed EXCEPT ![t] = e]
     /\ delay' = [delay EXCEPT ![t] = d]
     /\ wake' = [wake EXCEPT ![t] = IF d > 0 THEN clock + d * TicksPerMs ELSE 0]
     /\ pc' = [pc EXCEPT ![t] = IF d > 0 THEN "sleep" ELSE "stamp"]
     /\ trace' = [trace EXCEPT ![t] = IF d > 0 THEN @ ELSE Append(@, "throttle")]
     /\ io' = NoEvent
     /\ UNCHANGED <<config, last_request_timestamp, clock, now, raced, stamp, calls,
                    lastFailed>>

\* time.sleep returns, no earlier than asked, and throttle with it
Wake(t) ==
  /\ pc[t] = "sleep"
  /\ clock >= wake[t]
  /\ pc' = [pc EXCEPT ![t] = "stamp"]
  /\ trace' = [trace EXCEPT ![t] = Append(@, "throttle")]
  /\ io' = NoEvent
  /\ UNCHANGED <<config, last_request_timestamp, clock, locals, stamp, calls, lastFailed>>

\* a _request that records the timestamp only when it throttled
Stamp_OnlyThrottled(t) ==
  /\ pc[t] = "stamp"
  /\ last_request_timestamp' =
       IF enable_rate_limit THEN milliseconds ELSE last_request_timestamp
  /\ stamp' = [stamp EXCEPT ![t] = IF enable_rate_limit THEN milliseconds ELSE @]
  /\ pc' = [pc EXCEPT ![t] = "prepare"]
  /\ trace' = [trace EXCEPT ![t] = IF enable_rate_limit THEN Append(@, "stamp") ELSE @]
  /\ raced' = [u \in Threads |-> raced[u] \/ (u # t /\ pc[u] = "throttle")]
  /\ io' = NoEvent
  /\ UNCHANGED <<config, clock, now, elapsed, delay, wake, calls, lastFailed>>

\* _request, line 73: self.last_request_timestamp = self.milliseconds()
Stamp(t) ==
  /\ pc[t] = "stamp"
  /\ last_request_timestamp' = milliseconds
  /\ stamp' = [stamp EXCEPT ![t] = milliseconds]
  /\ pc' = [pc EXCEPT ![t] = "prepare"]
  /\ trace' = [trace EXCEPT ![t] = Append(@, "stamp")]
  /\ raced' = [u \in Threads |-> raced[u] \/ (u # t /\ pc[u] = "throttle")]
  /\ io' = NoEvent
  /\ UNCHANGED <<config, clock, now, elapsed, delay, wake, calls, lastFailed>>

\* _request, lines 75-86: build the request, sign it, hand it to the session
Send(t) ==
  /\ pc[t] = "prepare"
  /\ \E request \in Requests[SERVER] :
       io' = [type |-> "request", thread |-> t, request |-> request]
  /\ pc' = [pc EXCEPT ![t] = "wait"]
  /\ trace' = [trace EXCEPT ![t] = @ \o <<"sign", "send">>]
  /\ UNCHANGED <<config, last_request_timestamp, clock, locals, stamp, calls, lastFailed>>

\* _request, lines 86-92: the session answers or raises; check the status, decode;
\* the call returns or raises and its locals are gone
Receive(t) ==
  /\ pc[t] = "wait"
  /\ \E result \in Results[error_key] :
       /\ io' = [type |-> "result", thread |-> t, transport |-> result.transport,
                 outcome |-> result.outcome, trace |-> trace[t], stamp |-> stamp[t]]
       /\ lastFailed' = (result.outcome.kind # "return")
  /\ pc' = [pc EXCEPT ![t] = "idle"]
  /\ now' = [now EXCEPT ![t] = 0]
  /\ elapsed' = [elapsed EXCEPT ![t] = 0]
  /\ delay' = [delay EXCEPT ![t] = 0]
  /\ wake' = [wake EXCEPT ![t] = 0]
  /\ stamp' = [stamp EXCEPT ![t] = 0]
  /\ trace' = [trace EXCEPT ![t] = <<>>]
  /\ raced' = [raced EXCEPT ![t] = FALSE]
  /\ UNCHANGED <<config, last_request_timestamp, clock, calls>>

Step(t) ==
  \/ Throttle(t)
  \/ Wake(t)
  \/ Stamp(t)
  \/ Send(t)
  \/ Receive(t)

Next == Tick \/ \E t \in Threads : Call(t) \/ Step(t)

NextSeq == Tick \/ \E t \in Threads : CallSeq(t) \/ Step(t)

Spec == Init /\ [][Next]_vars

SpecSeq == InitSeq /\ [][NextSeq]_vars

\* ============================================================ the properties
IsRequest == io.type = "request"
IsResult == io.type = "result"
GotResponse == IsResult /\ io.transport # TransportError
ClientOrServerError == GotResponse /\ io.transport.status_code \in 400..599
GoodStatus == GotResponse /\ io.transport.status_code \notin 400..599

\* the decoded value is a mapping holding a truthy value under key
Flagged(v, key) ==
  /\ v.t = "dict"
  /\ \E i \in 1..Len(v.items) : v.items[i][1] = key /\ Truthy(v.items[i][2])

\* C3: a response with a 4xx/5xx status makes the request raise InvalidResponse carrying
\* that response, whatever its body, without the body being decoded and without a value
C3_ErrorStatusRaisesInvalidResponse ==
  ClientOrServerError =>
    /\ io.outcome.kind = "InvalidResponse"
    /\ io.outcome.carried = io.transport
    /\ ~io.outcome.decoded
    /\ io.outcome.value = None

\* C3 witness: a 404 whose body is valid JSON without the error flag raised InvalidResponse
C3_Witness ==
  /\ ClientOrServerError
  /\ io.transport.status_code = 404
  /\ io.transport.body = JsonText(PyDict(<< <<"result", PyInt(42)>> >>))
  /\ io.outcome.kind = "InvalidResponse"
  /\ ~io.outcome.decoded

\* C4: with a non-error status and a body that parses, the request raises InvalidResponse
\* carrying the response exactly when the decoded value is a mapping with a truthy value
\* under error_key; otherwise it returns the decoded value unchanged
C4_ErrorFlagDecidesOutcome ==
  (GoodStatus /\ io.transport.body # Garbage) =>
    LET v == io.transport.body.v
    IN IF Flagged(v, error_key)
       THEN io.outcome.kind = "InvalidResponse" /\ io.outcome.carried = io.transport
       ELSE io.outcome.kind = "return" /\ io.outcome.value = v

\* C4 witness: HTTP 200 with {"error": true} under error_key "error" raised InvalidResponse
C4_Witness ==
  /\ GoodStatus
  /\ error_key = "error"
  /\ io.transport.body = JsonText(PyDict(<< <<"error", PyBool(TRUE)>> >>))
  /\ io.outcome.kind = "InvalidResponse"
  /\ io.outcome.carried = io.transport

\* C5 as stated: a non-JSON body under a non-error status raises DecodeError, and every
\* request ends in a returned value, InvalidResponse or DecodeError
C5_Original ==
  /\ (GoodStatus /\ io.transport.body = Garbage) => io.outcome.kind = "DecodeError"
  /\ IsResult => io.outcome.kind \in {"return", "InvalidResponse", "DecodeError"}

\* C5 amended: a non-JSON body under a non-error status raises DecodeError and returns
\* nothing; a request for which the session delivered a response ends in exactly one of a
\* returned value, InvalidResponse or DecodeError; a request whose session call raised
\* ends in that transport error
C5_DecodeErrorAndOutcomes ==
  /\ (GoodStatus /\ io.transport.body = Garbage) =>
       io.outcome.kind = "DecodeError" /\ io.outcome.value = None
  /\ GotResponse => io.outcome.kind \in {"return", "InvalidResponse", "DecodeError"}
  /\ (IsResult /\ ~GotResponse) => io.outcome.kind = "TransportError"
  /\ IsResult => (io.outcome.kind # "return" => io.outcome.value = None)
  /\ IsResult => (io.outcome.kind = "return" => io.outcome.carried = None)

\* C5 witness: HTTP 200 with a body that is not JSON raised DecodeError
C5_Witness ==
  /\ GoodStatus
  /\ io.transport.status_code = 200
  /\ io.transport.body = Garbage
  /\ io.outcome.kind = "DecodeError"

\* sign returned an entry under key k
SignGave(r, k) == \E i \in 1..Len(r.sign_ret.items) : r.sign_ret.items[i][1] = k
SignValue(r, k) ==
  r.sign_ret.items[CHOOSE i \in 1..Len(r.sign_ret.items) : r.sign_ret.items[i][1] = k][2]

\* C6 as stated: what sign returns is merged into the defaults: sign's entries are sent,
\* the default's entries that sign did not supply are kept, and a key sign does not
\* return leaves the caller's value
C6_Original ==
  IsRequest =>
    LET r == io.request
    IN /\ SignGave(r, "params") =>
            /\ r.sent.params.t = "dict"
            /\ Keys(SignValue(r, "params")) \subseteq Keys(r.sent.params)
       /\ r.call.params.t = "dict" =>
            /\ r.sent.params.t = "dict"
            /\ Keys(r.call.params) \subseteq Keys(r.sent.params)
       /\ ~SignGave(r, "params") => r.sent.params = r.call.params
       /\ ~SignGave(r, "data") => r.sent.data = r.sign_args.data

\* C6 amended: what sign returns overrides the defaults key by key, not entry by entry:
\* for each of headers, params and data the session is given sign's value whole when sign
\* returned that key (the caller's params entries are then not sent), and the default
\* (no headers, the caller's params, the encoded body) when it did not; with the default
\* sign the session is given exactly the caller's params and the encoded body
C6_SignOverridesByKey ==
  IsRequest =>
    LET r == io.request
    IN /\ r.sent.headers = IF SignGave(r, "headers") THEN SignValue(r, "headers") ELSE None
       /\ r.sent.params =
            IF SignGave(r, "params") THEN SignValue(r, "params") ELSE r.call.params
       /\ r.sent.data =
            IF SignGave(r, "data") THEN SignValue(r, "data") ELSE r.sign_args.data
       /\ r.sign_ret = PyDict(<<>>) =>
            /\ r.sent.headers = None
            /\ r.sent.params = r.call.params
            /\ r.sent.data = r.sign_args.data

\* C6 witness: the caller passed params {"a": 1}, sign returned params {"sig": 7} and
\* headers, and the session was given sign's params alone
C6_Witness ==
  /\ IsRequest
  /\ io.request.call.params = PyDict(<< <<"a", PyInt(1)>> >>)
  /\ SignGave(io.request, "params")
  /\ SignGave(io.request, "headers")
  /\ io.request.sent.params = SignParams
  /\ io.request.sent.headers = SignHeaders

\* the body has an entry whose value is not None
HasValue(data) ==
  data.t = "dict" /\ \E i \in 1..Len(data.items) : data.items[i][2] # None
\* the JSON text of the body's entries whose value is not None
TextOfValues(data) ==
  PyStr(json_dumps(PyDict(SelectSeq(data.items, LAMBDA kv : kv[2].t # "none"))))

ExpectedURL(server) ==
  IF server.VERSION = None \/ server.VERSION = PyStr("")
  THEN server.PROTOCOL \o "://" \o server.HOST
  ELSE server.PROTOCOL \o "://" \o server.HOST \o "/" \o server.VERSION.s

\* C7: the Server's URL is protocol://host/version when a version is given and
\* protocol://host when it is None or empty, PROTOCOL, HOST and VERSION are the inputs,
\* and no step of the Client changes the Server
C7_ServerURL ==
  /\ [](/\ SERVER.URL = ExpectedURL(SERVER)
        /\ SERVER.PROTOCOL \in Protocols
        /\ SERVER.HOST \in Hosts
        /\ SERVER.VERSION \in Versions)
  /\ [][SERVER' = SERVER]_vars

\* C7 witness: a Server built with an empty version has no trailing slash, and a request
\* was made on it
C7_Witness ==
  /\ SERVER.VERSION = PyStr("")
  /\ SERVER.URL = "https://api.example.com"
  /\ IsRequest
  /\ io.request.sent.url = "https://api.example.com/ticker"

\* caller t's step is the write of line 73
Stamps(t) == pc[t] = "stamp" /\ pc'[t] = "prepare"
\* the last_request_timestamp caller t's throttle read
LastRead(t) == now[t] - elapsed[t]
\* caller t has recorded its timestamp and its request has not ended
Started(t) == pc[t] \in {"prepare", "wait"}

\* C1: with rate limiting on and calls made one at a time, each request's recorded start
\* is at least rate_limit ms after the start recorded by the request before it, however
\* that request ended
C1_SequentialSpacing ==
  [][\A t \in Threads :
       (Stamps(t) /\ enable_rate_limit /\ last_request_timestamp # 0) =>
         last_request_timestamp' - last_request_timestamp >= rate_limit]_vars

\* C1 witness: the request before raised, this one slept in throttle and recorded its
\* start rate_limit ms or more after the start it had read
C1_Witness ==
  \E t \in Threads :
    /\ enable_rate_limit
    /\ Started(t)
    /\ calls = 2
    /\ lastFailed
    /\ delay[t] > 0
    /\ LastRead(t) # 0
    /\ stamp[t] - LastRead(t) >= rate_limit
    /\ last_request_timestamp = stamp[t]

\* C2: callers sharing the client are not serialized: a request start less than rate_limit
\* ms after the one before it happens, and only to a caller whose throttle had read a
\* last_request_timestamp that another caller has replaced since
C2_ShortGapOnlyByRace ==
  [][\A t \in Threads :
       ( /\ Stamps(t)
         /\ enable_rate_limit
         /\ last_request_timestamp # 0
         /\ last_request_timestamp' - last_request_timestamp < rate_limit )
       => LastRead(t) # last_request_timestamp]_vars

\* C2 witness: two callers read the same last_request_timestamp, both saw elapsed >=
\* rate_limit and did not sleep, and both started less than rate_limit ms apart
C2_Witness ==
  \E t, u \in Threads :
    /\ t # u
    /\ enable_rate_limit
    /\ Started(t) /\ Started(u)
    /\ LastRead(t) = LastRead(u)
    /\ elapsed[t] >= rate_limit /\ elapsed[u] >= rate_limit
    /\ delay[t] = 0 /\ delay[u] = 0
    /\ stamp[t] - stamp[u] < rate_limit
    /\ stamp[u] - stamp[t] < rate_limit

\* the steps of a request up to and including its timestamp
UpToStamp == (IF enable_rate_limit THEN <<"throttle">> ELSE <<>>) \o <<"stamp">>

\* C8: every request records last_request_timestamp as the current time after throttle
\* has returned (when rate limiting is on) and before sign and the send, with rate
\* limiting off too and however the request ends; nothing else writes the field
C8_StampBeforeSend ==
  /\ [](/\ \A t \in Threads :
             /\ pc[t] = "prepare" => trace[t] = UpToStamp
             /\ pc[t] = "wait" => trace[t] = UpToStamp \o <<"sign", "send">>
             /\ Started(t) => /\ stamp[t] >= EpochMs
                              /\ stamp[t] <= last_request_timestamp
                              /\ stamp[t] >= wake[t] \div TicksPerMs
        /\ IsRequest => trace[io.thread] = UpToStamp \o <<"sign", "send">>
        /\ IsResult => /\ io.trace = UpToStamp \o <<"sign", "send">>
                       /\ io.stamp >= EpochMs
                       /\ io.stamp <= last_request_timestamp)
  /\ [][/\ \A t \in Threads : Stamps(t) => last_request_timestamp' = milliseconds
        /\ last_request_timestamp' # last_request_timestamp => \E t \in Threads : Stamps(t)
       ]_vars

\* C8 witness: with rate limiting off a request recorded its timestamp, was sent and
\* raised DecodeError
C8_Witness ==
  /\ ~enable_rate_limit
  /\ IsResult
  /\ io.outcome.kind = "DecodeError"
  /\ io.trace = <<"stamp", "sign", "send">>
  /\ io.stamp = last_request_timestamp

\* what C10 says of a caller, given the bound it puts on the delay
SleepIsBounded(t, bounded) ==
  /\ pc[t] = "sleep" =>
       /\ elapsed[t] < rate_limit
       /\ delay[t] = rate_limit - elapsed[t]
       /\ delay[t] > 0
       /\ bounded
       /\ wake[t] <= clock + delay[t] * TicksPerMs
  /\ (enable_rate_limit /\ pc[t] \in {"stamp", "prepare", "wait"} /\ delay[t] = 0) =>
       elapsed[t] >= rate_limit
  /\ (enable_rate_limit /\ pc[t] \in {"sleep", "stamp", "prepare", "wait"}
        /\ LastRead(t) = 0) => delay[t] = 0

\* C10 as stated: throttle sleeps only when elapsed < rate_limit, for rate_limit - elapsed
\* ms, which is more than 0 and at most rate_limit; a request that reads the fresh
\* client's timestamp 0 does not sleep
C10_Original == \A t \in Threads : SleepIsBounded(t, delay[t] <= rate_limit)

\* C10 amended: as stated, except that the delay is at most rate_limit only for a caller
\* during whose throttle no other caller recorded a timestamp between its clock reading
\* and its read of last_request_timestamp (so for calls made one at a time); a caller
\* raced in that way computes a negative elapsed and sleeps longer than rate_limit
C10_SleepBoundedUnlessRaced ==
  \A t \in Threads : SleepIsBounded(t, raced[t] \/ delay[t] <= rate_limit)

\* C10 witness: one millisecond into a rate limit of two, a caller sleeps the other one
C10_Witness ==
  \E t \in Threads :
    /\ pc[t] = "sleep"
    /\ ~raced[t]
    /\ rate_limit = 2
    /\ elapsed[t] = 1
    /\ delay[t] = 1

====
